---- MODULE Spec2Model ----
(***************************************************************************)
(* Teddy, the personal finance chat assistant: the chat route              *)
(* (app/routes/chat.py), the per-user session object SimpleExpenseRAG      *)
(* (app/services/expense_rag.py) and the helpers that talk to the external *)
(* record store (app/core/utils.py).                                       *)
(*                                                                         *)
(* Strings are sequences of character codes ("hi" is <<104, 105>>), so     *)
(* that strip(), lower() and the substring test are computed.              *)
(* chat_with_teddy is a coroutine that never awaits: the event loop runs   *)
(* one request handler from its first line to its return before it starts *)
(* the next one.  The handler is cut into steps at every external call and *)
(* at every access to the shared cache; CanStart is the event loop.        *)
(***************************************************************************)
EXTENDS Integers, Sequences, FiniteSets, TLC

VARIABLES
    rag_instance,   \* chat.py:11   TRUE when startup built the global instance
    cache,          \* chat.py:14   user_rag_cache: <<[uid, obj]>> in insertion order
    heap,           \* the SimpleExpenseRAG objects alive, by object identity
    nextObj,        \* identity of the next object constructed
    req,            \* one record per request slot: position and locals of the handler
    probe           \* input and output of a pure function applied on its own

vars == <<rag_instance, cache, heap, nextObj, req, probe>>

----------------------------------------------------------------------------
(* Bounds of the model *)

MaxReq == 2          \* request slots (requests outstanding at once)
MaxTurns == 7        \* turns appended to one session, concurrent traffic
MaxTurnsSeq == 2     \* turns appended to one session, sequential traffic
MaxTurnsCache == 2   \* turns appended to one session, cache traffic
MaxFill == 102       \* one-shot identifiers unknown to the store

(* Program constants *)

MAX_CACHE_SIZE == 100
MemoryLimit == 5

Slots == 1..MaxReq

----------------------------------------------------------------------------
(* Python string operations on sequences of character codes *)

Whitespace == {9, 10, 11, 12, 13, 28, 29, 30, 31, 32, 133, 160}

RECURSIVE LStrip(_)
LStrip(s) == IF s /= <<>> /\ Head(s) \in Whitespace THEN LStrip(Tail(s)) ELSE s

RECURSIVE RStrip(_)
RStrip(s) ==
    IF s /= <<>> /\ s[Len(s)] \in Whitespace
    THEN RStrip(SubSeq(s, 1, Len(s) - 1))
    ELSE s

Strip(s) == RStrip(LStrip(s))

Lower(s) == [k \in 1..Len(s) |-> IF s[k] \in 65..90 THEN s[k] + 32 ELSE s[k]]

Contains(s, sub) ==
    \E k \in 0..(Len(s) - Len(sub)) : SubSeq(s, k + 1, k + Len(sub)) = sub

\* s[-n:] for n > 0
LastN(n, s) == IF Len(s) <= n THEN s ELSE SubSeq(s, Len(s) - n + 1, Len(s))

\* 'hi', 'hello', 'hey'
Greetings == {<<104, 105>>, <<104, 101, 108, 108, 111>>, <<104, 101, 121>>}

\* the greeting test on the message as typed, without lower()
IsGreetingCaseSensitive(message) == \E gr \in Greetings : Contains(message, gr)

IsGreeting(message) == \E gr \in Greetings : Contains(Lower(message), gr)

----------------------------------------------------------------------------
(* Identifiers and messages that arrive *)

IdA == <<97>>          \* "a": an account with no records and no history
IdB == <<98>>          \* "b": an account with records and history
IdC == <<99>>          \* "c": an account like "a", on a store that answers well
IdGhost == <<103>>     \* "g": no such account
Filler(k) == <<1000 + k>>

MsgPay == <<112, 97, 121>>           \* "pay"
MsgHi == <<72, 105>>                 \* "Hi"
MsgThis == <<32, 116, 104, 105, 115>> \* " this"

RawIds == {<<>>, <<32>>, <<32, 98, 9>>, IdB, IdGhost}
RawMsgs == {<<>>, <<32, 10>>, MsgPay, MsgHi, MsgThis}

Accounts == {IdA, IdB, IdC}
Reliable == {IdC}
HasRecords == {IdB}
HasHistory == {IdB}

AnswerText == <<79, 75>>        \* "OK"
ErrorText == <<69, 114, 114>>   \* "Error generating response: ..."

----------------------------------------------------------------------------
(* Python numbers.  A JSON number without a fraction parses to an int, one *)
(* with a fraction to a float, the IEEE 754 double nearest to the literal. *)
(* A double is kept as sign, significand and exponent: its value is the    *)
(* significand, a sequence of bits with the lowest first, times 2^e.  The  *)
(* significand of a double has at most 53 bits, ends with a 1 and, once    *)
(* its low zeros are moved into e, starts with a 1.  Amounts stay far from *)
(* the exponent limits, so no overflow and no subnormal is modelled.       *)

MantissaBits == 53

RECURSIVE BitsOf(_)
BitsOf(n) == IF n = 0 THEN <<>> ELSE <<n % 2>> \o BitsOf(n \div 2)

RECURSIVE ValOf(_)
ValOf(bits) == IF bits = <<>> THEN 0 ELSE Head(bits) + 2 * ValOf(Tail(bits))

\* bits without its high zeros
Trim(bits) ==
    LET ones == {k \in 1..Len(bits) : bits[k] = 1}
    IN  IF ones = {} THEN <<>>
        ELSE SubSeq(bits, 1, CHOOSE k \in ones : \A j \in ones : j <= k)

ShiftLeft(bits, k) == IF bits = <<>> THEN <<>> ELSE [x \in 1..k |-> 0] \o bits

\* long significands are added and subtracted limb by limb
LimbBits == 14

Limbs(bits) ==
    [k \in 1..((Len(bits) + LimbBits - 1) \div LimbBits) |->
        ValOf(SubSeq(bits, LimbBits * (k - 1) + 1,
                     IF LimbBits * k < Len(bits) THEN LimbBits * k ELSE Len(bits)))]

BitsOfLimbs(limbs) ==
    [k \in 1..(LimbBits * Len(limbs)) |->
        (limbs[(k - 1) \div LimbBits + 1] \div 2^((k - 1) % LimbBits)) % 2]

RECURSIVE AddLimbs(_, _, _)
AddLimbs(a, b, carry) ==
    IF a = <<>> /\ b = <<>>
    THEN (IF carry = 1 THEN <<1>> ELSE <<>>)
    ELSE LET x == IF a = <<>> THEN 0 ELSE Head(a)
             y == IF b = <<>> THEN 0 ELSE Head(b)
             t == x + y + carry
         IN  <<t % 2^LimbBits>> \o AddLimbs(IF a = <<>> THEN <<>> ELSE Tail(a),
                                            IF b = <<>> THEN <<>> ELSE Tail(b),
                                            t \div 2^LimbBits)

RECURSIVE SubLimbs(_, _, _)
SubLimbs(a, b, borrow) ==
    IF a = <<>> THEN <<>>
    ELSE LET y == IF b = <<>> THEN 0 ELSE Head(b)
             t == Head(a) - y - borrow
         IN  <<(t + 2^LimbBits) % 2^LimbBits>>
             \o SubLimbs(Tail(a), IF b = <<>> THEN <<>> ELSE Tail(b),
                         IF t < 0 THEN 1 ELSE 0)

AddBits(a, b, carry) == Trim(BitsOfLimbs(AddLimbs(Limbs(a), Limbs(b), carry)))

\* a - b - borrow for a >= b + borrow, with high zeros left in
SubBits(a, b, borrow) == BitsOfLimbs(SubLimbs(Limbs(a), Limbs(b), borrow))

\* a < b, for significands without high zeros
LessBits(a, b) ==
    IF Len(a) /= Len(b) THEN Len(a) < Len(b)
    ELSE \E k \in 1..Len(a) :
            a[k] < b[k] /\ \A j \in (k + 1)..Len(a) : a[j] = b[j]

Zero == [neg |-> FALSE, bits |-> <<>>, e |-> 0]

\* the low zeros of the significand moved into the exponent
Canon(neg, bits, e) ==
    LET ones == {k \in 1..Len(bits) : bits[k] = 1}
        low == CHOOSE k \in ones : \A j \in ones : k <= j
    IN  IF ones = {} THEN Zero
        ELSE [neg |-> neg, bits |-> SubSeq(bits, low, Len(bits)), e |-> e + low - 1]

\* round to nearest, ties to even: the double nearest to bits * 2^e
RoundDouble(neg, bits, e) ==
    IF Len(bits) <= MantissaBits THEN Canon(neg, bits, e)
    ELSE LET k == Len(bits) - MantissaBits
             kept == SubSeq(bits, k + 1, Len(bits))
             sticky == \E j \in 1..(k - 1) : bits[j] = 1
             up == bits[k] = 1 /\ (sticky \/ kept[1] = 1)
         IN  Canon(neg, IF up THEN AddBits(kept, <<1>>, 0) ELSE kept, e + k)

\* x + y, exactly
ExactAdd(x, y) ==
    LET e0 == IF x.e < y.e THEN x.e ELSE y.e
        a == ShiftLeft(x.bits, x.e - e0)
        b == ShiftLeft(y.bits, y.e - e0)
    IN  IF x.neg = y.neg THEN [neg |-> x.neg, bits |-> AddBits(a, b, 0), e |-> e0]
        ELSE IF LessBits(a, b) THEN [neg |-> y.neg, bits |-> Trim(SubBits(b, a, 0)), e |-> e0]
        ELSE [neg |-> x.neg /\ a /= b, bits |-> Trim(SubBits(a, b, 0)), e |-> e0]

Negated(x) == IF x.bits = <<>> THEN x ELSE [x EXCEPT !.neg = ~x.neg]

\* the double operations + and -
Rounded(z) == RoundDouble(z.neg, z.bits, z.e)

FloatAdd(x, y) == Rounded(ExactAdd(x, y))

FloatSub(x, y) == FloatAdd(x, Negated(y))

\* float(n) for an int n
FloatOfInt(n) == RoundDouble(n < 0, BitsOf(IF n < 0 THEN -n ELSE n), 0)

Reverse(s) == [k \in 1..Len(s) |-> s[Len(s) + 1 - k]]

\* what is left of r / 25 after k binary places: r * 2^k mod 25, and
\* 2^20 mod 25 = 1
Over25(r, k) == (r * (2^(k % 20) % 25)) % 25

\* the k-th binary place of r / 25, for r < 25
Place25(r, k) == IF 2 * Over25(r, k - 1) >= 25 THEN 1 ELSE 0

\* float("w.ff") for the literal of c hundredths, c >= 0: c / 100 is
\* (c / 25) / 4, and c / 25 is a whole part and the places of r / 25.  Of
\* these the first 53 bits from the highest 1 are kept and what is left
\* decides the rounding (25 is odd: there is no tie).
FloatOfCents(c) ==
    LET r == c % 25
        whole == BitsOf(c \div 25)
        first == CHOOSE k \in 1..5 : Place25(r, k) = 1 /\ \A j \in 1..(k - 1) : Place25(r, j) = 0
        places == IF whole = <<>> THEN first + MantissaBits - 1
                  ELSE MantissaBits - Len(whole)
        bits == Trim([k \in 1..places |-> Place25(r, places + 1 - k)] \o whole)
    IN  IF r = 0 THEN Canon(FALSE, whole, -2)
        ELSE Canon(FALSE,
                   IF 2 * Over25(r, places) > 25 THEN AddBits(bits, <<1>>, 0) ELSE bits,
                   -places - 2)

\* a Python number: an int v or a float d
PyInt(n) == [t |-> "int", v |-> n, d |-> Zero]

PyFloat(d) == [t |-> "float", v |-> 0, d |-> d]

AsFloat(x) == IF x.t = "int" THEN FloatOfInt(x.v) ELSE x.d

PyAdd(x, y) ==
    IF x.t = "int" /\ y.t = "int" THEN PyInt(x.v + y.v)
    ELSE PyFloat(FloatAdd(AsFloat(x), AsFloat(y)))

PySub(x, y) ==
    IF x.t = "int" /\ y.t = "int" THEN PyInt(x.v - y.v)
    ELSE PyFloat(FloatSub(AsFloat(x), AsFloat(y)))

\* a JSON number as the store writes it: a whole number, or hundredths
JsonInt(n) == [lit |-> "int", n |-> n]

JsonDec(cents) == [lit |-> "dec", n |-> cents]

\* json.loads of the literal
ParseNumber(j) == IF j.lit = "int" THEN PyInt(j.n) ELSE PyFloat(FloatOfCents(j.n))

\* b * 2^e to the nearest whole number, ties to even
NearestWhole(b, e) ==
    LET k == -e
        whole == ValOf(SubSeq(b, k + 1, Len(b)))
        sticky == \E j \in 1..(k - 1) : b[j] = 1
    IN  IF e >= 0 THEN ValOf(ShiftLeft(b, e))
        ELSE IF Len(b) < k THEN 0
        ELSE IF b[k] = 1 /\ (sticky \/ whole % 2 = 1) THEN whole + 1 ELSE whole

\* hundredths nearest to the double d, ties to even, without the sign:
\* 100 * d is 64 * d + 32 * d + 4 * d
CentsOfFloat(d) ==
    NearestWhole(AddBits(AddBits(ShiftLeft(d.bits, 6), ShiftLeft(d.bits, 5), 0),
                         ShiftLeft(d.bits, 2), 0),
                 d.e)

TwoDecimals(neg, c) == [neg |-> neg, whole |-> c \div 100, frac |-> c % 100]

\* f"{x:.2f}": sign, whole part and two decimals
Format2f(x) ==
    IF x.t = "int" THEN TwoDecimals(x.v < 0, 100 * (IF x.v < 0 THEN -x.v ELSE x.v))
    ELSE TwoDecimals(x.d.neg, CentsOfFloat(x.d))

----------------------------------------------------------------------------
(* The external record store, seen through its HTTP answers.  net is a     *)
(* requests exception (timeout, connection error); json is whether the     *)
(* body parses; shape is the Python type of the parsed body.               *)

Http(status, json, shape, val) ==
    [net |-> FALSE, status |-> status, json |-> json, shape |-> shape, val |-> val]

Turn(h, a) == [human |-> h, assistant |-> a]

Hist4 == << Turn(<<49>>, <<65>>), Turn(<<50>>, <<66>>),
            Turn(<<51>>, <<67>>), Turn(<<52>>, <<68>>) >>

HistoryBodies(u) == IF u \in HasHistory THEN {<<>>, Hist4} ELSE {<<>>}

\* answers of GET history/get-history that do not say "this account exists"
HistoryFailures ==
    { [net |-> TRUE, status |-> 0, json |-> FALSE, shape |-> "none", val |-> <<>>],
      Http(404, TRUE, "dict", <<>>),
      Http(400, TRUE, "dict", <<>>),
      Http(500, FALSE, "none", <<>>),
      Http(201, TRUE, "list", Hist4),
      Http(200, FALSE, "none", <<>>),
      Http(200, TRUE, "dict", <<>>) }

HistoryResponses(u) ==
    (IF u \in Reliable THEN {} ELSE HistoryFailures) \cup
    (IF u \in Accounts THEN {Http(200, TRUE, "list", b) : b \in HistoryBodies(u)} ELSE {})

\* amount is the JSON number of the transaction: JsonInt or JsonDec
Tx(kind, amount) == [transactionType |-> kind, amount |-> amount]

\* complete: the period carries the keys _process_data reads
Period(id, complete, txs) == [id |-> id, complete |-> complete, transactions |-> txs]

Report(keys, daily, weekly, monthly) ==
    [keys |-> keys, daily |-> daily, weekly |-> weekly, monthly |-> monthly]

\* None and the empty dict {}: both are falsy and handled alike
NoReport == Report({}, <<>>, <<>>, <<>>)

Report1 ==
    Report({"daily", "monthly"},
           << Period(<<49>>, TRUE, << Tx("income", JsonInt(100)), Tx("expense", JsonInt(30)) >>),
              Period(<<50>>, TRUE, << Tx("expense", JsonInt(50)) >>) >>,
           <<>>,
           << Period(<<51>>, TRUE, << Tx("income", JsonInt(100)), Tx("expense", JsonInt(80)) >>) >>)

Report2 ==
    Report({"weekly"}, <<>>,
           << Period(<<52>>, TRUE, << Tx("expense", JsonInt(7)), Tx("transfer", JsonInt(9)) >>) >>,
           <<>>)

\* a daily entry without 'transactions'
ReportBad == Report({"daily"}, << Period(<<53>>, FALSE, <<>>) >>, <<>>, <<>>)

\* a non-empty object with none of the three granularities
ReportOther == Report({"message"}, <<>>, <<>>, <<>>)

ReportFailures ==
    { [net |-> TRUE, status |-> 0, json |-> FALSE, shape |-> "none", val |-> NoReport],
      Http(404, TRUE, "dict", NoReport),
      Http(500, FALSE, "none", NoReport),
      Http(200, FALSE, "none", NoReport),
      Http(200, TRUE, "list", NoReport),
      Http(200, TRUE, "dict", NoReport) }

ReportResponses(u) ==
    IF u \in Reliable THEN {Http(404, TRUE, "dict", NoReport)}
    ELSE ReportFailures \cup
         (IF u \in HasRecords
          THEN {Http(200, TRUE, "dict", r) : r \in {Report1, Report2, ReportBad, ReportOther}}
          ELSE {})

CompletionOutcomes ==
    { [raised |-> FALSE, text |-> AnswerText],
      [raised |-> FALSE, text |-> <<>>],
      [raised |-> TRUE, text |-> <<>>] }

PostResponses(u) ==
    IF u \in Reliable THEN { [net |-> FALSE, status |-> 201] }
    ELSE { [net |-> FALSE, status |-> 200], [net |-> FALSE, status |-> 201],
           [net |-> FALSE, status |-> 500], [net |-> TRUE, status |-> 0] }

----------------------------------------------------------------------------
(* app/core/utils.py *)

\* validate_user_exists failing open: a request that raised counts as success
validate_fail_open(user_id, r) ==
    IF Strip(user_id) = <<>> THEN <<FALSE, <<>>>>
    ELSE IF r.net THEN <<TRUE, Strip(user_id)>>
    ELSE IF r.status = 200 /\ r.json /\ r.shape = "list" THEN <<TRUE, Strip(user_id)>>
    ELSE <<FALSE, <<>>>>

\* validate_user_exists without the isinstance test: any JSON body of a 200
validate_any_body(user_id, r) ==
    IF Strip(user_id) = <<>> THEN <<FALSE, <<>>>>
    ELSE IF r.net THEN <<FALSE, <<>>>>
    ELSE IF r.status = 200 /\ r.json THEN <<TRUE, Strip(user_id)>>
    ELSE <<FALSE, <<>>>>

\* validate_user_exists: <<is_valid_user, actual_user_id>>.  No request is
\* sent for an empty identifier: the answer r is then not looked at.
validate_user_exists(user_id, r) ==
    IF Strip(user_id) = <<>> THEN <<FALSE, <<>>>>
    ELSE IF r.net THEN <<FALSE, <<>>>>
    ELSE IF r.status = 200
         THEN IF ~r.json THEN <<FALSE, <<>>>>
              ELSE IF r.shape = "list" THEN <<TRUE, Strip(user_id)>>
              ELSE <<FALSE, <<>>>>
    ELSE <<FALSE, <<>>>>

\* what an answer of the store is, whatever is made of it
AnswerKind(r) ==
    IF r.net THEN "network error"
    ELSE IF r.status /= 200 THEN "not 200"
    ELSE IF ~r.json THEN "malformed JSON"
    ELSE IF r.shape /= "list" THEN "not a list"
    ELSE "list"

\* fetch_chat_history_for_validated_user without the test of the status
fetch_any_status(r) ==
    IF r.net THEN <<>>
    ELSE IF r.json /\ r.shape = "list" THEN r.val
    ELSE <<>>

fetch_chat_history_for_validated_user(r) ==
    IF r.net THEN <<>>
    ELSE IF r.status = 200 /\ r.json /\ r.shape = "list" THEN r.val
    ELSE <<>>

\* the request of fetch_user_specific_expense_data, after its validation
FetchedData(r) ==
    IF r.net THEN NoReport
    ELSE IF r.status = 200
         THEN IF r.json /\ r.shape = "dict" /\ r.val.keys /= {} THEN r.val
              ELSE NoReport
    ELSE NoReport

\* status in [200, 201]
PostSaved(r) == ~r.net /\ r.status \in {200, 201}

----------------------------------------------------------------------------
(* app/services/expense_rag.py *)

\* a constructor that hands out a memory with a turn in it
SessionWithLeftovers ==
    [current_conversation |-> << <<MsgPay, AnswerText>> >>, chat_history |-> <<>>,
     processed_chunks |-> <<>>,
     turns |-> <<>>]

NewSession ==
    [current_conversation |-> <<>>, chat_history |-> <<>>,
     processed_chunks |-> <<>>,
     turns |-> <<>>]    \* history variable: every pair ever appended

\* |x| >= |y| for doubles
MagnitudeAtLeast(x, y) ==
    LET e0 == IF x.e < y.e THEN x.e ELSE y.e
    IN  ~LessBits(ShiftLeft(x.bits, x.e - e0), ShiftLeft(y.bits, y.e - e0))

\* what the rounding of t = f + x lost, as Neumaier's summation reads it
LostIn(f, x, t) ==
    IF MagnitudeAtLeast(f, x)
    THEN FloatAdd(FloatSub(f, t), x)
    ELSE FloatAdd(FloatSub(x, t), f)

\* a float x met when the result is a float: t is the new result f + x
SumFloat(st, x, t, compensated) ==
    [acc |-> PyFloat(t),
     c |-> IF compensated THEN FloatAdd(st.c, LostIn(st.acc.d, x, t)) ELSE st.c]

\* one step of the builtin sum() over Python numbers.  acc is the running
\* result and c the compensation.  While everything was an int the result is
\* an int; an int met later is added as a double; a float is added plainly by
\* CPython up to 3.11 and with Neumaier's compensation from 3.12 on.
SumStep(st, x, compensated) ==
    IF st.acc.t = "int"
    THEN [st EXCEPT !.acc = PyAdd(st.acc, x)]
    ELSE IF x.t = "int"
    THEN [st EXCEPT !.acc = PyFloat(FloatAdd(st.acc.d, FloatOfInt(x.v)))]
    ELSE SumFloat(st, x.d, FloatAdd(st.acc.d, x.d), compensated)

RECURSIVE SumFold(_, _, _, _)
SumFold(st, txs, kind, compensated) ==
    IF txs = <<>> THEN st
    ELSE SumFold(IF Head(txs).transactionType = kind
                 THEN SumStep(st, ParseNumber(Head(txs).amount), compensated)
                 ELSE st,
                 Tail(txs), kind, compensated)

\* sum([t['amount'] for t in transactions if t['transactionType'] == kind])
\* the end of sum(): the compensation, if there is one, is added
SumEnd(st) ==
    IF st.acc.t = "float" /\ st.c /= Zero
    THEN PyFloat(FloatAdd(st.acc.d, st.c))
    ELSE st.acc

SumOn(txs, kind, compensated) ==
    SumEnd(SumFold([acc |-> PyInt(0), c |-> Zero], txs, kind, compensated))

SumAmounts(txs, kind) == SumOn(txs, kind, FALSE)

\* the text of a chunk: the period, the three amounts as f"{x:.2f}" writes
\* them and, for a day, the line of each transaction
ChunkText(kind, p, income, expenses) ==
    [period |-> p.id,
     income |-> Format2f(income),
     expenses |-> Format2f(expenses),
     net |-> Format2f(PySub(income, expenses)),
     lines |-> IF kind = "daily"
               THEN [k \in 1..Len(p.transactions) |->
                       [transactionType |-> p.transactions[k].transactionType,
                        amount |-> Format2f(ParseNumber(p.transactions[k].amount))]]
               ELSE <<>>]

\* chunks.append({...}) with the two totals of the period
ChunkOfTotals(kind, p, income, expenses) ==
    [type |-> kind, period |-> p.id,
     text |-> ChunkText(kind, p, income, expenses),
     total_income |-> income,
     total_expenses |-> expenses,
     net |-> PySub(income, expenses)]

ChunkOn(kind, p, compensated) ==
    ChunkOfTotals(kind, p, SumOn(p.transactions, "income", compensated),
                  SumOn(p.transactions, "expense", compensated))

Chunk(kind, p) == ChunkOn(kind, p, FALSE)

\* the chunks of one granularity, newest entry first
ChunksReversed(kind, data, periods, compensated) ==
    IF kind \in data.keys
    THEN [k \in 1..Len(periods) |-> ChunkOn(kind, periods[Len(periods) + 1 - k], compensated)]
    ELSE <<>>

ChunksOn(kind, data, periods, compensated) ==
    IF kind \in data.keys
    THEN [k \in 1..Len(periods) |-> ChunkOn(kind, periods[k], compensated)]
    ELSE <<>>

ChunksOf(kind, data, periods) == ChunksOn(kind, data, periods, FALSE)

\* _process_data on a build of CPython: raised is the KeyError of an entry
\* without its keys
ProcessDataOn(data, compensated) ==
    [raised |-> \/ "daily" \in data.keys /\ \E k \in 1..Len(data.daily) : ~data.daily[k].complete
                \/ "weekly" \in data.keys /\ \E k \in 1..Len(data.weekly) : ~data.weekly[k].complete
                \/ "monthly" \in data.keys /\ \E k \in 1..Len(data.monthly) : ~data.monthly[k].complete,
     chunks |-> ChunksOn("daily", data, data.daily, compensated)
                \o ChunksOn("weekly", data, data.weekly, compensated)
                \o ChunksOn("monthly", data, data.monthly, compensated)]

\* _process_data on the reports of the handler: their amounts are whole
\* numbers, summed as ints on every build
ProcessData(data) == ProcessDataOn(data, FALSE)

\* self.chat_history[:3] in place of [-3:]
oldest_history(chat_history) ==
    IF Len(chat_history) <= 3 THEN chat_history ELSE SubSeq(chat_history, 1, 3)

\* expense_rag.py:240: recent_history = self.chat_history[-3:]
recent_history(chat_history) == LastN(3, chat_history)

Part(part, n, chunk, text) == [part |-> part, n |-> n, chunk |-> chunk, text |-> text]

NoChunk == [type |-> "none"]

\* _build_context: context_parts, the list that "\n".join makes the text of
build_context(session) ==
    LET chunks == session.processed_chunks
        recent == recent_history(session.chat_history)
        conv == session.current_conversation
        data == IF chunks = <<>> THEN <<>>
                ELSE << Part("=== ALL EXPENSE DATA ===", 0, NoChunk, <<>>) >>
                     \o [k \in 1..Len(chunks) |->
                           Part("Data", k, [type |-> chunks[k].type, text |-> chunks[k].text], <<>>)]
        OneOf(label, k, human, assistant) ==
            << Part(label, k, NoChunk, <<>>),
               Part("Human", 0, NoChunk, human),
               Part("Assistant", 0, NoChunk, assistant) >>
        previous[k \in 0..Len(recent)] ==
            IF k = 0 THEN <<>>
            ELSE previous[k - 1]
                 \o OneOf("Previous", k, recent[k].human, recent[k].assistant)
        exchanges[k \in 0..Len(conv)] ==
            IF k = 0 THEN <<>>
            ELSE exchanges[k - 1] \o OneOf("Exchange", k, conv[k][1], conv[k][2])
    IN  data
        \o (IF session.chat_history = <<>> THEN <<>>
            ELSE << Part("=== PREVIOUS CONVERSATIONS ===", 0, NoChunk, <<>>) >>
                 \o previous[Len(recent)])
        \o (IF conv = <<>> THEN <<>>
            ELSE << Part("=== CURRENT CONVERSATION ===", 0, NoChunk, <<>>) >>
                 \o exchanges[Len(conv)])

----------------------------------------------------------------------------
(* app/routes/chat.py: the cache *)

Keys(c) == {c[k].uid : k \in 1..Len(c)}

InCache(key) == key \in Keys(cache)

\* user_rag_cache[key]
ObjOf(c, key) == (CHOOSE k \in 1..Len(c) : c[k].uid = key)

\* user_rag_cache[key] = obj: a new key goes last, a present key keeps its place
DictSet(c, key, obj) ==
    IF key \in Keys(c)
    THEN [k \in 1..Len(c) |-> IF c[k].uid = key THEN [uid |-> key, obj |-> obj] ELSE c[k]]
    ELSE Append(c, [uid |-> key, obj |-> obj])

\* int(len(user_rag_cache) * 0.2): the double product truncated.  0.2 is the
\* double just above 1/5 and rounding is monotone, so for every length below
\* 2^50 the truncation is the integer quotient by 5.
RemoveCount(n) == (2 * n) \div 10

\* cleanup_rag_cache removing from the wrong end: the newest go
cleanup_newest(c) ==
    IF Len(c) > MAX_CACHE_SIZE
    THEN SubSeq(c, 1, Len(c) - RemoveCount(Len(c)))
    ELSE c

\* cleanup_rag_cache with >= in its test: it evicts from a cache that is full
cleanup_at_limit(c) ==
    IF Len(c) >= MAX_CACHE_SIZE
    THEN SubSeq(c, RemoveCount(Len(c)) + 1, Len(c))
    ELSE c

\* cleanup_rag_cache: what stays
cleanup_rag_cache(c) ==
    IF Len(c) > MAX_CACHE_SIZE
    THEN SubSeq(c, RemoveCount(Len(c)) + 1, Len(c))
    ELSE c

\* cleanup_rag_cache: users_to_remove
users_to_remove(c) ==
    IF Len(c) > MAX_CACHE_SIZE
    THEN [k \in 1..RemoveCount(Len(c)) |-> c[k].uid]
    ELSE <<>>

\* objects still referenced, by the cache or by a handler's user_rag_instance
Live(c, r) == {c[k].obj : k \in 1..Len(c)} \cup {r[i].ref : i \in Slots}

Collect(h, c, r) == [o \in (DOMAIN h) \cap Live(c, r) |-> h[o]]

----------------------------------------------------------------------------
(* One request slot: where its handler stands, and the handler's locals *)

NoKeep == [cut |-> FALSE, val |-> <<>>]

IdleReq ==
    [pc |-> "idle",
     user_id |-> <<>>,        \* request.user_id
     message |-> <<>>,        \* request.message
     ref |-> 0,               \* user_rag_instance
     removed |-> <<>>,        \* users_to_remove of this request's cleanup
     lost |-> FALSE,          \* history variable: a removed Session had answered a turn
     is_valid |-> "unset",    \* is_valid_user in load_user_chat_history: unset, yes, no
     validated |-> <<>>,      \* validated_user_id
     response |-> <<>>,       \* assistant_response
     comp |-> "none",         \* the completion call: none, returned, raised
     keep |-> NoKeep,         \* current_conversation[-5:], read and not yet stored
     is_valid_save |-> "unset", \* is_valid in validate_and_send_to_history: unset, yes, no
     loaded |-> "unset",      \* history variable: what the history load was answered
     posted |-> <<>>,         \* payloads sent to history/create-history
     status |-> 0,            \* HTTP status of the answer, 0 while there is none
     calls |-> <<>>,          \* external requests of this turn, in order
     turn |-> 0,              \* history variable: place of its pair in the session's turns
     cold |-> FALSE,          \* history variable: identifier not cached at arrival
     had |-> 0,               \* history variable: the object cached under it at arrival
     stale |-> FALSE,         \* history variable: that object held chunks at arrival
     remembered |-> FALSE,    \* history variable: that object held turns in its memory
     fetched |-> NoReport,    \* history variable: user_expense_data, None as NoReport
     with |-> {}]             \* history variable: slots in progress at arrival

Key(i) == Strip(req[i].user_id)

InProgress(i) == req[i].pc \notin {"idle", "done"}

\* a handler that gave the event loop away at the completion call
RunningUntilAwait(i) == req[i].pc \in {"lookup", "create", "fetchv", "fetchrec", "chatv", "history", "complete"}

Running(i) == req[i].pc \notin {"idle", "queued", "done"}

\* handlers run on threads: any of them starts at any time
CanStartAny(i) == TRUE

\* The event loop: chat_with_teddy is "async def" and holds no await, so a
\* handler starts only when no other handler is between its first line and
\* its return.
CanStart(i) == \A j \in Slots \ {i} : ~Running(j)

Finish(r, code) == [r EXCEPT !.pc = "done", !.status = code]

\* a call that is issued again after its first attempt
CalledWithRetry(r, what) == [r EXCEPT !.calls = Append(Append(@, what), what)]

Called(r, what) == [r EXCEPT !.calls = Append(@, what)]

\* the checks of chat.py:55 and 62 without the strip
InputInvalidNoStrip(r) == r.message = <<>> \/ r.user_id = <<>>

\* chat.py:55 and 62: the message or the user id is empty once stripped
InputInvalid(r) == Strip(r.message) = <<>> \/ Strip(r.user_id) = <<>>

\* the failed validation swallowed: chat() goes on without a validated user
ChatInvalidGoesOn(r) == [r EXCEPT !.is_valid = "no", !.pc = "complete"]

\* expense_rag.py:111-112 and chat.py:115-122: the ValueError "Invalid user_id:
\* ... User not found." leaves chat() and is answered 404
ChatInvalid(r) == Finish([r EXCEPT !.is_valid = "no"], 404)

\* chat.py:101-113, once chat() has returned in request record r
AfterChat(r) ==
    IF r.response = <<>> THEN Finish(r, 500)
    ELSE IF r.validated /= <<>> /\ ~IsGreeting(r.message)
         THEN [r EXCEPT !.pc = "persistv"]
         ELSE Finish(r, 200)

----------------------------------------------------------------------------
Init ==
    /\ rag_instance \in BOOLEAN
    /\ cache = <<>>
    /\ heap = <<>>
    /\ nextObj = 1
    /\ req = [i \in Slots |-> IdleReq]
    /\ probe = [fn |-> "none"]

----------------------------------------------------------------------------
(* The handler chat_with_teddy, step by step *)

\* a request reaches the server
Arrive(i, u, m) ==
    /\ req[i].pc = "idle"
    /\ req' = [req EXCEPT ![i] =
                 [IdleReq EXCEPT !.pc = "queued", !.user_id = u, !.message = m,
                                 !.cold = ~InCache(Strip(u)),
                                 !.had = IF InCache(Strip(u))
                                         THEN cache[ObjOf(cache, Strip(u))].obj ELSE 0,
                                 !.remembered =
                                     /\ InCache(Strip(u))
                                     /\ heap[cache[ObjOf(cache, Strip(u))].obj].current_conversation
                                          /= <<>>,
                                 !.stale = /\ InCache(Strip(u))
                                           /\ heap[cache[ObjOf(cache, Strip(u))].obj].processed_chunks
                                                /= <<>>,
                                 !.with = {j \in Slots \ {i} : InProgress(j)}]]
    /\ UNCHANGED <<rag_instance, cache, heap, nextObj, probe>>

\* schemas.py:5-6: min_length=1 on both fields of ChatRequest; the framework
\* answers 422 and does not call the handler
ModelInvalid(r) == Len(r.message) < 1 \/ Len(r.user_id) < 1

\* chat.py:51-74: the checks of the request, then the capacity check
Start(i) ==
    /\ req[i].pc = "queued"
    /\ CanStart(i)
    /\ IF ModelInvalid(req[i])
       THEN /\ req' = [req EXCEPT ![i] = Finish(@, 422)]
            /\ UNCHANGED <<cache, heap>>
       ELSE IF ~rag_instance
       THEN /\ req' = [req EXCEPT ![i] = Finish(@, 503)]
            /\ UNCHANGED <<cache, heap>>
       ELSE IF InputInvalid(req[i])
       THEN /\ req' = [req EXCEPT ![i] = Finish(@, 400)]
            /\ UNCHANGED <<cache, heap>>
       ELSE /\ cache' = cleanup_rag_cache(cache)
            /\ req' = [req EXCEPT ![i].pc = "lookup",
                                  ![i].removed = users_to_remove(cache),
                                  ![i].lost =
                                      \E k \in 1..Len(users_to_remove(cache)) :
                                          heap[cache[k].obj].turns /= <<>>]
            /\ heap' = Collect(heap, cache', req')
    /\ UNCHANGED <<rag_instance, nextObj, probe>>

\* get-or-create that constructs whether or not the key is cached
LookupAlwaysCreates(i) ==
    /\ req[i].pc = "lookup"
    /\ req' = [req EXCEPT ![i].pc = "create"]
    /\ UNCHANGED <<rag_instance, cache, heap, nextObj, probe>>

\* a hit that makes its entry the newest of the cache
LookupMovesToEnd(i) ==
    /\ req[i].pc = "lookup"
    /\ req' = IF InCache(Key(i))
              THEN [req EXCEPT ![i].pc = "fetchv",
                               ![i].ref = cache[ObjOf(cache, Key(i))].obj]
              ELSE [req EXCEPT ![i].pc = "create"]
    /\ cache' = IF InCache(Key(i))
                THEN Append(SelectSeq(cache, LAMBDA e : e.uid /= Key(i)),
                            cache[ObjOf(cache, Key(i))])
                ELSE cache
    /\ UNCHANGED <<rag_instance, heap, nextObj, probe>>

\* chat.py:76 and 85: the membership test; on a hit, the instance
Lookup(i) ==
    /\ req[i].pc = "lookup"
    /\ req' = IF InCache(Key(i))
              THEN [req EXCEPT ![i].pc = "fetchv",
                               ![i].ref = cache[ObjOf(cache, Key(i))].obj]
              ELSE [req EXCEPT ![i].pc = "create"]
    /\ UNCHANGED <<rag_instance, cache, heap, nextObj, probe>>

\* an instance that is constructed and used, and not stored in the cache
CreateUnstored(i) ==
    /\ req[i].pc = "create"
    /\ req' = [req EXCEPT ![i].pc = "fetchv", ![i].ref = nextObj]
    /\ heap' = Collect([o \in (DOMAIN heap) \cup {nextObj} |->
                           IF o = nextObj THEN NewSession ELSE heap[o]],
                       cache, req')
    /\ nextObj' = nextObj + 1
    /\ UNCHANGED <<rag_instance, cache, probe>>

\* chat.py:78-85: construct the instance, store it, read it back
Create(i) ==
    /\ req[i].pc = "create"
    /\ cache' = DictSet(cache, Key(i), nextObj)
    /\ req' = [req EXCEPT ![i].pc = "fetchv", ![i].ref = nextObj]
    /\ heap' = Collect([o \in (DOMAIN heap) \cup {nextObj} |->
                           IF o = nextObj THEN NewSession ELSE heap[o]],
                       cache', req')
    /\ nextObj' = nextObj + 1
    /\ UNCHANGED <<rag_instance, probe>>

\* set_expense_data(None) that leaves the chunks of the turn before
SetNoDataKeeps(h, o) == h

\* set_expense_data(None), expense_rag.py:81-84
SetNoData(h, o) == [h EXCEPT ![o].processed_chunks = <<>>]

\* the record fetch without the validation in front of it
FetchUnvalidated(i) ==
    /\ req[i].pc = "fetchv"
    /\ req' = [req EXCEPT ![i].pc = "fetchrec"]
    /\ UNCHANGED <<rag_instance, cache, heap, nextObj, probe>>

\* chat.py:88, utils.py:48-58: the validation inside
\* fetch_user_specific_expense_data; when it fails, chat.py:96
FetchValidate(i) ==
    /\ req[i].pc = "fetchv"
    /\ \E r \in HistoryResponses(Key(i)) :
         IF validate_user_exists(Key(i), r)[1]
         THEN /\ req' = [req EXCEPT ![i] = [Called(@, "validate") EXCEPT !.pc = "fetchrec"]]
              /\ UNCHANGED heap
         ELSE /\ req' = [req EXCEPT ![i] = [Called(@, "validate") EXCEPT !.pc = "chatv"]]
              /\ heap' = SetNoData(heap, req[i].ref)
    /\ UNCHANGED <<rag_instance, cache, nextObj, probe>>

\* utils.py:60-105 and chat.py:89-96: GET report/monthly, then set_expense_data
FetchRecords(i) ==
    /\ req[i].pc = "fetchrec"
    /\ \E r \in ReportResponses(Key(i)) :
         LET data == FetchedData(r)
             done == [Called(req[i], "records") EXCEPT !.fetched = data]
         IN  IF data.keys = {}
             THEN /\ req' = [req EXCEPT ![i] = [done EXCEPT !.pc = "chatv"]]
                  /\ heap' = SetNoData(heap, req[i].ref)
             ELSE IF ProcessData(data).raised
             THEN /\ req' = [req EXCEPT ![i] = Finish(done, 500)]
                  /\ UNCHANGED heap
             ELSE /\ req' = [req EXCEPT ![i] = [done EXCEPT !.pc = "chatv"]]
                  /\ heap' = [heap EXCEPT ![req[i].ref].processed_chunks =
                                              ProcessData(data).chunks]
    /\ UNCHANGED <<rag_instance, cache, nextObj, probe>>

\* chat.py:99, expense_rag.py:265-272 and 105-112: chat() validates the user;
\* the ValueError "Invalid user_id ... User not found" becomes 404 (chat.py:115-122)
ChatValidate(i) ==
    /\ req[i].pc = "chatv"
    /\ \E r \in HistoryResponses(Key(i)) :
         LET v == validate_user_exists(Key(i), r)
         IN  req' = [req EXCEPT ![i] =
                       IF v[1]
                       THEN [Called(@, "validate") EXCEPT
                                !.pc = "history", !.is_valid = "yes", !.validated = v[2]]
                       ELSE ChatInvalid(Called(@, "validate"))]
    /\ UNCHANGED <<rag_instance, cache, heap, nextObj, probe>>

\* a history load whose failed request ends the turn with 500
LoadHistoryAborts(i) ==
    /\ req[i].pc = "history"
    /\ \E r \in HistoryResponses(req[i].validated) :
         IF AnswerKind(r) = "list"
         THEN /\ heap' = [heap EXCEPT ![req[i].ref].chat_history = r.val]
              /\ req' = [req EXCEPT ![i] = [Called(@, "history") EXCEPT
                                               !.pc = "complete", !.loaded = "list"]]
         ELSE /\ req' = [req EXCEPT ![i] =
                           Finish([Called(@, "history") EXCEPT !.loaded = AnswerKind(r)], 500)]
              /\ UNCHANGED heap
    /\ UNCHANGED <<rag_instance, cache, nextObj, probe>>

\* expense_rag.py:114-119: the history of the validated user
LoadHistory(i) ==
    /\ req[i].pc = "history"
    /\ \E r \in HistoryResponses(req[i].validated) :
         /\ heap' = [heap EXCEPT ![req[i].ref].chat_history =
                                     fetch_chat_history_for_validated_user(r)]
         /\ req' = [req EXCEPT ![i] = [Called(@, "history") EXCEPT
                                          !.pc = "complete", !.loaded = AnswerKind(r)]]
    /\ UNCHANGED <<rag_instance, cache, nextObj, probe>>

\* expense_rag.py:318: current_conversation.append((user_query, assistant_response))
MemoryAppend(s, query, answer) ==
    [s EXCEPT !.current_conversation = Append(@, <<query, answer>>),
              !.turns = Append(@, <<query, answer>>)]

\* the exception of the completion call leaving chat() and the handler's try:
\* chat.py:125-126 answers 500
ProviderErrorPropagates(r) == Finish([Called(r, "completion") EXCEPT !.comp = "raised"], 500)

\* expense_rag.py:326-327, then chat.py:101-113: the exception of the
\* completion call becomes the response text of request record r
ProviderError(r) ==
    AfterChat([Called(r, "completion") EXCEPT !.response = ErrorText, !.comp = "raised"])

\* a completion call whose error text is appended to the memory like an answer
CompleteRemembersError(i) ==
    /\ req[i].pc = "complete"
    /\ \E out \in CompletionOutcomes :
         IF out.raised
         THEN /\ req' = [req EXCEPT ![i] = ProviderError(@)]
              /\ heap' = [heap EXCEPT ![req[i].ref] =
                            MemoryAppend(@, Strip(req[i].message), ErrorText)]
         ELSE /\ req' = [req EXCEPT ![i] =
                           [Called(@, "completion") EXCEPT
                               !.pc = "slice", !.response = out.text, !.comp = "returned",
                               !.turn = Len(heap[req[i].ref].turns) + 1]]
              /\ heap' = [heap EXCEPT ![req[i].ref] =
                            MemoryAppend(@, Strip(req[i].message), out.text)]
    /\ UNCHANGED <<rag_instance, cache, nextObj, probe>>

\* expense_rag.py:304-318 and 326-327: the completion call; its answer is
\* appended to the memory, its exception becomes the response text
Complete(i) ==
    /\ req[i].pc = "complete"
    /\ \E out \in CompletionOutcomes :
         IF out.raised
         THEN /\ req' = [req EXCEPT ![i] = ProviderError(@)]
              /\ UNCHANGED heap
         ELSE /\ req' = [req EXCEPT ![i] =
                           [Called(@, "completion") EXCEPT
                               !.pc = "slice", !.response = out.text, !.comp = "returned",
                               !.turn = Len(heap[req[i].ref].turns) + 1]]
              /\ heap' = [heap EXCEPT ![req[i].ref] =
                            MemoryAppend(@, Strip(req[i].message), out.text)]
    /\ UNCHANGED <<rag_instance, cache, nextObj, probe>>

\* current_conversation[:5] in place of [-5:]
TruncatedFirst(conv) ==
    IF Len(conv) > MemoryLimit
    THEN [cut |-> TRUE, val |-> SubSeq(conv, 1, MemoryLimit)]
    ELSE NoKeep

\* expense_rag.py:321-322, right-hand side: the last five, when there are more
Truncated(conv) ==
    IF Len(conv) > MemoryLimit
    THEN [cut |-> TRUE, val |-> LastN(MemoryLimit, conv)]
    ELSE NoKeep

MemSlice(i) ==
    /\ req[i].pc = "slice"
    /\ req' = [req EXCEPT ![i].pc = "assign",
                          ![i].keep = Truncated(heap[req[i].ref].current_conversation)]
    /\ UNCHANGED <<rag_instance, cache, heap, nextObj, probe>>

\* expense_rag.py:322, the store, and 324; then chat.py:101-113
MemAssign(i) ==
    /\ req[i].pc = "assign"
    /\ heap' = IF req[i].keep.cut
               THEN [heap EXCEPT ![req[i].ref].current_conversation = req[i].keep.val]
               ELSE heap
    /\ req' = [req EXCEPT ![i] = AfterChat([@ EXCEPT !.keep = NoKeep])]
    /\ UNCHANGED <<rag_instance, cache, nextObj, probe>>

\* chat.py:106, utils.py:228-234: validate_and_send_to_history validates again
PersistValidate(i) ==
    /\ req[i].pc = "persistv"
    /\ \E r \in HistoryResponses(req[i].validated) :
         req' = [req EXCEPT ![i] =
                   IF validate_user_exists(req[i].validated, r)[1]
                   THEN [Called(@, "validate") EXCEPT !.pc = "persist", !.is_valid_save = "yes"]
                   ELSE Finish([Called(@, "validate") EXCEPT !.is_valid_save = "no"], 200)]
    /\ UNCHANGED <<rag_instance, cache, heap, nextObj, probe>>

\* the payload with the identifier as the request carried it
PayloadRaw(r) ==
    [userId |-> r.user_id, human |-> Strip(r.message), assistant |-> Strip(r.response)]

\* utils.py:239-243: the payload of the write, from the locals of request record r
Payload(r) ==
    [userId |-> r.validated, human |-> Strip(r.message), assistant |-> Strip(r.response)]

\* a failed write raised into the handler: chat.py:125-126 answers 500
AfterPersistStrict(r, success) == Finish(r, IF success THEN 200 ELSE 500)

\* chat.py:106-113: success is only looked at for a warning; the answer is 200
AfterPersist(r, success) == Finish(r, 200)

\* utils.py:236-254: POST history/create-history, then chat.py:107-113
PersistPost(i) ==
    /\ req[i].pc = "persist"
    /\ \E r \in PostResponses(req[i].validated) :
         req' = [req EXCEPT ![i] =
                   AfterPersist([Called(@, "persist") EXCEPT
                                    !.posted = Append(@, [payload |-> Payload(req[i]),
                                                          saved |-> PostSaved(r)])],
                                PostSaved(r))]
    /\ UNCHANGED <<rag_instance, cache, heap, nextObj, probe>>

\* the answer leaves the server; the handler's locals are dropped.  The event
\* loop sends it, so not while another handler holds the loop.
Deliver(i) ==
    /\ req[i].pc = "done"
    /\ CanStart(i)
    /\ req' = [j \in Slots |->
                 IF j = i THEN IdleReq ELSE [req[j] EXCEPT !.with = @ \ {i}]]
    /\ heap' = Collect(heap, cache, req')
    /\ UNCHANGED <<rag_instance, cache, nextObj, probe>>

Handler(i) ==
    \/ Start(i) \/ Lookup(i) \/ Create(i)
    \/ FetchValidate(i) \/ FetchRecords(i)
    \/ ChatValidate(i) \/ LoadHistory(i)
    \/ Complete(i) \/ MemSlice(i) \/ MemAssign(i)
    \/ PersistValidate(i) \/ PersistPost(i)
    \/ Deliver(i)

----------------------------------------------------------------------------
(* Traffic *)

\* pairs the cached session of key has appended, plus its requests in progress
TurnsUsed(key) ==
    (IF InCache(key)
     THEN Len(heap[cache[ObjOf(cache, key)].obj].turns) ELSE 0)
    + Cardinality({j \in Slots : InProgress(j) /\ Key(j) = key})

AllIdle == \A j \in Slots : req[j].pc = "idle"

\* one client, one request at a time, every kind of input
ArriveSeq ==
    /\ AllIdle
    /\ \E u \in RawIds, m \in RawMsgs :
         /\ TurnsUsed(Strip(u)) < MaxTurnsSeq
         /\ Arrive(1, u, m)

Next == ArriveSeq \/ \E i \in Slots : Handler(i)

Spec == Init /\ [][Next]_vars

\* The handler holds no await and no loop, and every request it sends has
\* timeout=30 (utils.py:18, 70, 124, 162, 193, 247); the completion call has
\* the client's timeout.  A handler that can take its next step takes it.
SpecLive == Spec /\ \A i \in Slots : WF_vars(Handler(i))

----------------------------------------------------------------------------
(* Concurrent traffic: requests arrive while others are queued or handled *)

\* Slots are interchangeable: a request takes the first free one.  A request
\* arrives while the others are still waiting for the event loop: its arrival
\* changes nothing a handler reads, so an arrival during or after another
\* request's handling is the same run with the arrival moved earlier.
ArriveConc(i) ==
    /\ \A j \in Slots : req[j].pc \in {"idle", "queued"}
    /\ \A j \in 1..(i - 1) : req[j].pc /= "idle"
    /\ TurnsUsed(IdC) < MaxTurns
    /\ Arrive(i, IdC, MsgPay)

NextConc == \E i \in Slots : ArriveConc(i) \/ Handler(i)

SpecConc == Init /\ [][NextConc]_vars

----------------------------------------------------------------------------
(* Two clients at once: the first requests of two identifiers arrive       *)
(* while others are queued, one on a store that answers well, one on a     *)
(* store that may fail in every way.                                       *)

ArriveTwo(i) ==
    /\ \A j \in Slots : req[j].pc \in {"idle", "queued"}
    /\ \A j \in 1..(i - 1) : req[j].pc /= "idle"
    /\ \E u \in {IdA, IdC} :
         /\ ~InCache(u)
         /\ \A j \in Slots : req[j].pc = "idle" \/ Key(j) /= u
         /\ Arrive(i, u, MsgPay)

NextTwo == \E i \in Slots : ArriveTwo(i) \/ Handler(i)

SpecTwo == Init /\ [][NextTwo]_vars

----------------------------------------------------------------------------
(* Cache traffic: one account holder and a burst of one-shot identifiers   *)
(* the store does not know.  The account holder writes before the burst    *)
(* and again from the moment the cache is full.                            *)

\* the one-shot identifiers come in increasing order: the newest is the last
\* of them in the cache
RECURSIVE LastFiller(_)
LastFiller(c) ==
    IF c = <<>> THEN 0
    ELSE IF c[Len(c)].uid[1] > 1000 THEN c[Len(c)].uid[1] - 1000
    ELSE LastFiller(SubSeq(c, 1, Len(c) - 1))

NextFill == LastFiller(cache) + 1

CacheArrivals ==
    (IF (NextFill = 1 \/ NextFill >= MAX_CACHE_SIZE) /\ TurnsUsed(IdB) < MaxTurnsCache
     THEN {IdB} ELSE {})
    \cup (IF NextFill <= MaxFill THEN {Filler(NextFill)} ELSE {})

ArriveCache ==
    /\ AllIdle
    /\ \E u \in CacheArrivals : Arrive(1, u, MsgPay)

NextCache == ArriveCache \/ \E i \in Slots : Handler(i)

SpecCache == Init /\ [][NextCache]_vars

----------------------------------------------------------------------------
(* validate_user_exists applied on its own, to every identifier and answer *)

ProbeIds == RawIds \cup {IdA, IdC, <<9, 97, 32, 98, 10>>, Filler(1)}

ProbeAnswers == HistoryFailures \cup {Http(200, TRUE, "list", b) : b \in {<<>>, Hist4}}

ApplyValidate ==
    /\ \E u \in ProbeIds, r \in ProbeAnswers :
         probe' = [fn |-> "validate_user_exists", user_id |-> u, answer |-> r,
                   result |-> validate_user_exists(u, r)]
    /\ UNCHANGED <<rag_instance, cache, heap, nextObj, req>>

SpecValidate == Init /\ [][ApplyValidate]_vars

----------------------------------------------------------------------------
(* _process_data and _build_context applied on their own *)

\* the three granularities together, two weeks
Report3 ==
    Report({"daily", "weekly", "monthly"},
           << Period(<<61>>, TRUE, << Tx("expense", JsonInt(12)) >>) >>,
           << Period(<<54>>, TRUE, << Tx("income", JsonInt(40)) >>),
              Period(<<55>>, TRUE, <<>>) >>,
           << Period(<<56>>, TRUE, << Tx("income", JsonInt(40)), Tx("expense", JsonInt(12)) >>) >>)

\* {"daily": [{... "amount": 0.1}, {... "amount": 0.2}]}, both incomes
ReportTenths ==
    Report({"daily"},
           << Period(<<57>>, TRUE, << Tx("income", JsonDec(10)), Tx("income", JsonDec(20)) >>) >>,
           <<>>, <<>>)

\* expenses of 19.99, 0.01 and 10.00 in one month
ReportThirty ==
    Report({"monthly"}, <<>>, <<>>,
           << Period(<<58>>, TRUE, << Tx("expense", JsonDec(1999)), Tx("expense", JsonDec(1)),
                                      Tx("expense", JsonDec(1000)) >>) >>)

\* an income of 0.30 and an expense of 0.10 in one week
ReportNet ==
    Report({"weekly"}, <<>>,
           << Period(<<59>>, TRUE, << Tx("income", JsonDec(30)), Tx("expense", JsonDec(10)) >>) >>,
           <<>>)

\* whole and decimal amounts in one day
ReportMixed ==
    Report({"daily"},
           << Period(<<60>>, TRUE, << Tx("expense", JsonInt(5)), Tx("expense", JsonDec(10)),
                                      Tx("expense", JsonDec(20)), Tx("income", JsonInt(7)) >>) >>,
           <<>>, <<>>)

\* expenses of 0.10, 0.20 and 0.30 in one week: 0.6000000000000001 when
\* summed plainly, 0.6 when summed with compensation
ReportSixTenths ==
    Report({"weekly"}, <<>>,
           << Period(<<62>>, TRUE, << Tx("expense", JsonDec(10)), Tx("expense", JsonDec(20)),
                                      Tx("expense", JsonDec(30)) >>) >>,
           <<>>)

ProbeReports == {Report1, Report2, Report3, ReportBad, ReportOther,
                 ReportTenths, ReportThirty, ReportNet, ReportMixed, ReportSixTenths}

ApplyProcessData ==
    /\ probe.fn = "none"
    /\ \E data \in ProbeReports, compensated \in BOOLEAN :
         probe' = [fn |-> "_process_data", data |-> data, compensated |-> compensated,
                   result |-> ProcessDataOn(data, compensated)]
    /\ UNCHANGED <<rag_instance, cache, heap, nextObj, req>>

ProbeChunks == {<<>>, ProcessData(Report1).chunks, ProcessData(Report2).chunks,
                ProcessDataOn(ReportTenths, TRUE).chunks}

ProbeHistories == {SubSeq(Hist4, a, b) : a \in 1..Len(Hist4), b \in 0..Len(Hist4)}

ProbePairs == {<<MsgPay, AnswerText>>, <<MsgHi, ErrorText>>}

ProbeMemories == {<<>>} \cup {<<x>> : x \in ProbePairs}
                 \cup {<<x, y>> : x \in ProbePairs, y \in ProbePairs}

ApplyBuildContext ==
    /\ probe.fn = "none"
    /\ \E chunks \in ProbeChunks, history \in ProbeHistories, memory \in ProbeMemories :
         LET session == [NewSession EXCEPT !.processed_chunks = chunks,
                                           !.chat_history = history,
                                           !.current_conversation = memory]
         IN  probe' = [fn |-> "_build_context", session |-> session,
                       result |-> build_context(session)]
    /\ UNCHANGED <<rag_instance, cache, heap, nextObj, req>>

NextPure == ApplyProcessData \/ ApplyBuildContext

SpecPure == Init /\ [][NextPure]_vars

----------------------------------------------------------------------------
(* Claims *)

Done(i) == req[i].pc = "done"

Count(seq, x) == Cardinality({k \in 1..Len(seq) : seq[k] = x})

RECURSIVE IsSubsequence(_, _)
IsSubsequence(a, b) ==
    IF a = <<>> THEN TRUE
    ELSE IF b = <<>> THEN FALSE
    ELSE IF Head(a) = Head(b) THEN IsSubsequence(Tail(a), Tail(b))
    ELSE IsSubsequence(a, Tail(b))

\* no handler stands between the append and the truncation of session o
Settled(o) == \A i \in Slots : req[i].ref = o => req[i].pc \notin {"slice", "assign"}

\* C1: in every reachable state the Session Cache holds at most
\* MAX_CACHE_SIZE entries.
C1_CacheWithinMax == Len(cache) <= MAX_CACHE_SIZE

\* C2: whenever the capacity check of a request finds n > MAX_CACHE_SIZE
\* entries, eviction removes exactly floor(n / 5) of them, the removed ones
\* are the oldest by insertion order (every removed session was constructed
\* before every kept one), the others stay in their order, the removed
\* sessions are gone, and n - floor(n / 5) <= MAX_CACHE_SIZE.
C2_EvictsOldestFifth ==
    [][\A i \in Slots :
          (req[i].pc = "queued" /\ req'[i].pc = "lookup" /\ Len(cache) > MAX_CACHE_SIZE)
          => LET n == Len(cache)
                 k == n \div 5
             IN  /\ Len(cache') = n - k
                 /\ n - k <= MAX_CACHE_SIZE
                 /\ \A x \in 1..(n - k) : cache'[x] = cache[k + x]
                 /\ Len(req'[i].removed) = k
                 /\ \A x \in 1..k : /\ req'[i].removed[x] = cache[x].uid
                                    /\ cache[x].obj \notin DOMAIN heap'
                                    /\ \A y \in (k + 1)..n : cache[x].obj < cache[y].obj
      ]_vars

C2_Witness ==
    \E i \in Slots : /\ req[i].pc = "lookup"
                     /\ Len(req[i].removed) = 20
                     /\ Len(cache) = 81

\* C3: between turns the in-session memory of every session holds at most 5
\* pairs, and they are the last min(k, 5) of the k pairs appended to it, in
\* the order they were appended.
C3_MemoryIsLastFive ==
    \A o \in DOMAIN heap :
        Settled(o) =>
            LET conv == heap[o].current_conversation
                k == Len(heap[o].turns)
            IN  /\ Len(conv) <= 5
                /\ Len(conv) = (IF k < 5 THEN k ELSE 5)
                /\ \A x \in 1..Len(conv) : conv[x] = heap[o].turns[k - Len(conv) + x]

\* six turns on one session: the first pair is gone, the second is now first
C3_Witness ==
    \E o \in DOMAIN heap :
        /\ Settled(o)
        /\ Len(heap[o].turns) = 6
        /\ heap[o].turns[1] /= heap[o].turns[2]
        /\ Len(heap[o].current_conversation) = 5
        /\ heap[o].current_conversation[1] = heap[o].turns[2]

\* C4 as stated: a turn answered 404 (IdentityInvalid) has made no
\* history-load, no record-fetch and no completion call.
C4_NoCallsWhenInvalid ==
    \A i \in Slots :
        (Done(i) /\ req[i].status = 404)
        => /\ Count(req[i].calls, "history") = 0
           /\ Count(req[i].calls, "records") = 0
           /\ Count(req[i].calls, "completion") = 0

\* C4 amended: a turn answered 404 has made no history-load and no completion
\* call; it has fetched records only after the validation inside the record
\* fetch had succeeded, and never for an identifier the store does not know.
C4_NoHistoryNoCompletionWhenInvalid ==
    \A i \in Slots :
        (Done(i) /\ req[i].status = 404)
        => /\ req[i].calls \in { <<"validate", "validate">>,
                                 <<"validate", "records", "validate">> }
           /\ Key(i) \notin Accounts => req[i].calls = <<"validate", "validate">>

C4_Witness ==
    \E i \in Slots : /\ Done(i) /\ req[i].status = 404
                     /\ Key(i) = IdGhost
                     /\ req[i].calls = <<"validate", "validate">>

\* C5 as stated: a request whose identifier or message is empty after
\* trimming is answered with the validation error, without any external call.
C5_EmptyInputIsValidationError ==
    \A i \in Slots :
        (Done(i) /\ InputInvalid(req[i]))
        => (req[i].status \in {400, 422} /\ req[i].calls = <<>>)

\* C5 amended: such a request is rejected before any component runs: with 422
\* by the request model when a field is the empty string, otherwise with 400
\* by the handler when the RAG system was initialised at startup and with 503
\* when it was not; no external call is made and the cache, the sessions and
\* the object counter are left as they were.
C5_EmptyInputRejectedFirst ==
    [][\A i \in Slots :
          (req[i].pc = "queued" /\ req'[i].pc /= "queued"
           /\ (Strip(req[i].user_id) = <<>> \/ Strip(req[i].message) = <<>>))
          => /\ req'[i].pc = "done"
             /\ req'[i].status = (IF req[i].user_id = <<>> \/ req[i].message = <<>> THEN 422
                                  ELSE IF rag_instance THEN 400 ELSE 503)
             /\ req'[i].calls = <<>>
             /\ req'[i].ref = 0
             /\ cache' = cache /\ heap' = heap /\ nextObj' = nextObj
      ]_vars

\* a blank identifier with a real message, rejected with 400, while a session
\* is cached
C5_Witness ==
    \E i \in Slots : /\ Done(i) /\ req[i].status = 400
                     /\ req[i].user_id = <<32>> /\ req[i].message = MsgPay
                     /\ req[i].calls = <<>>
                     /\ cache /= <<>>

\* C6: when the validation in chat() fails, the turn ends there: the answer
\* is 404 and carries no assistant text, no completion and no persist call is
\* made, nothing is sent to history/create-history, and the step leaves every
\* session, so also every in-session memory, as it was.
C6_InvalidEndsTurn ==
    [][\A i \in Slots :
          req'[i].is_valid = "no"
          => /\ req'[i].pc = "done"
             /\ req'[i].status = 404
             /\ req'[i].response = <<>>
             /\ req'[i].posted = <<>>
             /\ req'[i].comp = "none"
             /\ Count(req'[i].calls, "persist") = 0
             /\ req[i].pc = "chatv" => heap' = heap
      ]_vars

\* a session with a turn in its memory, whose next turn fails validation
C6_Witness ==
    \E i \in Slots : /\ req[i].is_valid = "no"
                     /\ req[i].ref \in DOMAIN heap
                     /\ heap[req[i].ref].current_conversation /= <<>>

\* C7: validate_user_exists returns (TRUE, trimmed identifier) exactly when
\* the identifier is not blank and the store answers 200 with a JSON list;
\* otherwise (FALSE, "").  The trimmed identifier is the identifier without
\* the whitespace at its two ends.
IsTrimOf(t, u) ==
    /\ t /= <<>>
    /\ t[1] \notin Whitespace /\ t[Len(t)] \notin Whitespace
    /\ \E a \in 0..Len(u) :
         /\ a + Len(t) <= Len(u)
         /\ \A x \in 1..Len(t) : t[x] = u[a + x]
         /\ \A x \in 1..a : u[x] \in Whitespace
         /\ \A x \in (a + Len(t) + 1)..Len(u) : u[x] \in Whitespace

C7_ValidIffListAnswer ==
    probe.fn = "validate_user_exists" =>
        LET u == probe.user_id
            r == probe.answer
            blank == \A x \in 1..Len(u) : u[x] \in Whitespace
            listed == ~r.net /\ r.status = 200 /\ r.json /\ r.shape = "list"
        IN  IF ~blank /\ listed
            THEN probe.result[1] = TRUE /\ IsTrimOf(probe.result[2], u)
            ELSE probe.result = <<FALSE, <<>>>>

\* an identifier with whitespace at both ends, accepted on an empty list
C7_Witness ==
    /\ probe.fn = "validate_user_exists"
    /\ probe.user_id = <<9, 97, 32, 98, 10>>
    /\ probe.answer = Http(200, TRUE, "list", <<>>)
    /\ probe.result = <<TRUE, <<97, 32, 98>>>>

\* C8 as stated: within one turn each kind of external call is made at most
\* once.
C8_EachCallOnce ==
    \A i \in Slots :
        \A c \in {"validate", "history", "records", "completion", "persist"} :
            Count(req[i].calls, c) <= 1

\* C8 amended: the calls of one turn are, in this order and each at most once:
\* the validation inside the record fetch, the record fetch, the validation in
\* chat(), the history load, the completion, the validation before the persist
\* write, the persist write; so at most three validations and one of each
\* other call, and no call is issued again after it failed.
FullTurn ==
    <<"validate", "records", "validate", "history", "completion", "validate", "persist">>

C8_CallsOfOneTurn ==
    \A i \in Slots :
        /\ IsSubsequence(req[i].calls, FullTurn)
        /\ Count(req[i].calls, "validate") <= 3

C8_Witness == \E i \in Slots : Done(i) /\ req[i].calls = FullTurn

\* C9: requests with one identifier share one session: the cache holds one
\* entry per identifier, every session constructed is still the cached one
\* (none was constructed twice for an identifier), and the session a request
\* works on is the one cached under its identifier.
C9_OneSessionPerIdentifier ==
    /\ \A x, y \in 1..Len(cache) : cache[x].uid = cache[y].uid => x = y
    /\ nextObj = Len(cache) + 1
    /\ \A i \in Slots :
         req[i].ref /= 0 => /\ InCache(Key(i))
                            /\ cache[ObjOf(cache, Key(i))].obj = req[i].ref
    /\ \A i, j \in Slots :
         (req[i].ref /= 0 /\ req[j].ref /= 0 /\ Key(i) = Key(j)) => req[i].ref = req[j].ref

\* two requests with the same identifier, both arrived before it was cached,
\* both past get-or-create
C9_Witness ==
    \E i, j \in Slots :
        /\ i /= j
        /\ req[i].cold /\ req[j].cold
        /\ j \in req[i].with
        /\ Key(i) = Key(j)
        /\ req[i].ref /= 0 /\ req[j].ref = req[i].ref

\* C10: no update of the in-session memory is lost: every request whose
\* completion returned has its pair at a place of its own among the pairs
\* appended to the session cached under its identifier, and once no handler is
\* inside the append-and-truncate the memory is the last min(n, 5) of them.
C10_NoLostUpdate ==
    \A i \in Slots :
        (req[i].comp = "returned" /\ InCache(Key(i))) =>
            LET s == heap[cache[ObjOf(cache, Key(i))].obj]
                n == Len(s.turns)
            IN  /\ req[i].turn \in 1..n
                /\ s.turns[req[i].turn] = <<Strip(req[i].message), req[i].response>>
                /\ \A j \in Slots \ {i} :
                     (req[j].comp = "returned" /\ Key(j) = Key(i))
                     => req[j].turn /= req[i].turn
                /\ Settled(cache[ObjOf(cache, Key(i))].obj)
                   => /\ Len(s.current_conversation) = (IF n < 5 THEN n ELSE 5)
                      /\ s.current_conversation = LastN(5, s.turns)

\* two requests outstanding together on a session that already held five
\* pairs: both finished, one as the sixth turn and one as the seventh
C10_Witness ==
    \E i, j \in Slots :
        /\ i /= j
        /\ j \in req[i].with
        /\ Done(i) /\ Done(j)
        /\ req[i].comp = "returned" /\ req[j].comp = "returned"
        /\ req[i].ref = req[j].ref
        /\ req[j].turn = 6 /\ req[i].turn = 7
        /\ Len(heap[req[i].ref].current_conversation) = 5

\* the message holds "hi", "hey" or "hello", in either case of each letter
SaysHello(m) ==
    \E k \in 1..Len(m) :
        /\ m[k] \in {104, 72}
        /\ \/ k + 1 <= Len(m) /\ m[k + 1] \in {105, 73}
           \/ k + 2 <= Len(m) /\ m[k + 1] \in {101, 69} /\ m[k + 2] \in {121, 89}
           \/ /\ k + 4 <= Len(m)
              /\ m[k + 1] \in {101, 69} /\ m[k + 2] \in {108, 76}
              /\ m[k + 3] \in {108, 76} /\ m[k + 4] \in {111, 79}

\* C11: a request whose message holds a greeting word never reaches the
\* persist step: no validation for the write, no write to
\* history/create-history; and when its user was validated and the completion
\* gave a text, the request is answered 200 with that text.
C11_GreetingNotPersisted ==
    \A i \in Slots :
        SaysHello(req[i].message)
        => /\ req[i].pc \notin {"persistv", "persist"}
           /\ req[i].is_valid_save = "unset"
           /\ req[i].posted = <<>>
           /\ Count(req[i].calls, "persist") = 0
           /\ (Done(i) /\ req[i].is_valid = "yes" /\ req[i].response /= <<>>)
              => req[i].status = 200

\* "Hi" from the user with an account and history: answered, not written
C11_Witness ==
    \E i \in Slots : /\ Done(i) /\ req[i].message = MsgHi
                     /\ req[i].validated = IdB
                     /\ req[i].status = 200 /\ req[i].response = AnswerText
                     /\ req[i].comp = "returned"

\* what the write of request i has to carry
ExpectedPayload(i) ==
    [userId |-> Key(i), human |-> Strip(req[i].message), assistant |-> Strip(req[i].response)]

\* a finished turn of a validated user, not a greeting, whose pair was
\* appended to the memory
UpdatedTurn(i) ==
    /\ Done(i) /\ req[i].comp = "returned" /\ req[i].is_valid = "yes"
    /\ ~SaysHello(req[i].message)

\* C12 as stated: every such turn has written its pair to
\* history/create-history, with the trimmed identifier.
C12_AlwaysPersists ==
    \A i \in Slots :
        UpdatedTurn(i)
        => /\ Len(req[i].posted) = 1
           /\ req[i].posted[1].payload = ExpectedPayload(i)

\* C12 amended: such a turn writes to history/create-history exactly when the
\* completion text is not empty and the validation repeated inside
\* validate_and_send_to_history succeeds; the write is the last call of the
\* turn and carries the trimmed identifier, the trimmed message and the
\* trimmed response.  With an empty completion text the turn is answered 500,
\* with a failed repeated validation 200, both without a write.
C12_PersistsWhenRevalidated ==
    \A i \in Slots :
        UpdatedTurn(i)
        => IF req[i].response = <<>>
           THEN req[i].status = 500 /\ req[i].posted = <<>> /\ req[i].is_valid_save = "unset"
           ELSE /\ req[i].status = 200
                /\ req[i].is_valid_save \in {"yes", "no"}
                /\ req[i].is_valid_save = "no" => req[i].posted = <<>>
                /\ req[i].is_valid_save = "yes"
                   => /\ Len(req[i].posted) = 1
                      /\ req[i].posted[1].payload = ExpectedPayload(i)
                      /\ req[i].calls[Len(req[i].calls)] = "persist"

\* the identifier came with whitespace around it; the write carries it trimmed
C12_Witness ==
    \E i \in Slots : /\ UpdatedTurn(i)
                     /\ req[i].user_id = <<32, 98, 9>>
                     /\ req[i].is_valid_save = "yes"
                     /\ req[i].posted /= <<>>
                     /\ req[i].posted[1].payload.userId = IdB

\* C13: when the completion call raises, chat() returns the error text as the
\* response together with the trimmed identifier, and the request is answered
\* 200 with that text; it is never answered as a failure.
C13_ProviderErrorIsAnAnswer ==
    \A i \in Slots :
        req[i].comp = "raised"
        => /\ req[i].response = ErrorText
           /\ req[i].is_valid = "yes"
           /\ req[i].validated = Key(i)
           /\ req[i].pc \in {"persistv", "persist", "done"}
           /\ Done(i) => req[i].status = 200

C13_Witness ==
    \E i \in Slots : /\ Done(i) /\ req[i].comp = "raised"
                     /\ req[i].user_id = <<32, 98, 9>> /\ req[i].validated = IdB
                     /\ req[i].status = 200 /\ req[i].response = ErrorText

\* C14: the history load never ends the turn.  Whatever the store answers,
\* the step after it is the completion call; the session's persisted history
\* is the body of a 200 answer that parses to a list and is empty on a network
\* error, another status, malformed JSON or another body; a finished turn
\* whose history was loaded has made its completion call.
C14_HistoryLoadNeverFails ==
    [][\A i \in Slots :
          /\ (req[i].pc = "history" /\ req'[i].pc /= "history")
             => /\ req'[i].pc = "complete" /\ req'[i].status = 0
                /\ req'[i].loaded /= "unset"
                /\ req'[i].loaded /= "list"
                   => heap'[req[i].ref].chat_history = <<>>
                /\ req'[i].loaded = "list"
                   => heap'[req[i].ref].chat_history \in HistoryBodies(Key(i))
          /\ (req'[i].pc = "done" /\ req'[i].loaded /= "unset")
             => Count(req'[i].calls, "completion") = 1
      ]_vars

\* the store answered the history load of an account with history by another
\* status: the turn is answered all the same, on an empty history
C14_Witness ==
    \E i \in Slots : /\ Done(i) /\ req[i].loaded = "not 200"
                     /\ Key(i) \in HasHistory
                     /\ req[i].comp = "returned" /\ req[i].status = 200
                     /\ heap[req[i].ref].chat_history = <<>>

\* C15: a write to history/create-history that was not saved (a status other
\* than 200 and 201, or a network error) leaves the turn as it was: the
\* request is answered 200 with the response already produced, and the pair
\* appended to the in-session memory is still its last entry.
C15_PersistFailureNotFatal ==
    \A i \in Slots :
        (req[i].posted /= <<>> /\ ~req[i].posted[1].saved)
        => /\ Done(i) /\ req[i].status = 200
           /\ req[i].response /= <<>>
           /\ req[i].comp = "returned"
              => LET conv == heap[req[i].ref].current_conversation
                 IN  /\ conv /= <<>>
                     /\ conv[Len(conv)] = <<Strip(req[i].message), req[i].response>>

C15_Witness ==
    \E i \in Slots : /\ Done(i) /\ req[i].status = 200
                     /\ req[i].posted /= <<>> /\ ~req[i].posted[1].saved
                     /\ req[i].comp = "returned"
                     /\ req[i].response = AnswerText

\* the capacity check of request i evicted the entry of its own identifier
EvictedItself(r) == \E x \in 1..Len(r.removed) : r.removed[x] = Strip(r.user_id)

C20_HistoryBeforeRecords ==
    \A i \in Slots :
        \A a, b \in 1..Len(req[i].calls) :
            (req[i].calls[a] = "records" /\ req[i].calls[b] = "history") => b < a

\* C20 amended: the steps of one turn come in the order: identity validation
\* (inside the record fetch), record fetch, identity validation (in chat()),
\* history load, completion call, memory update, identity validation (before
\* the write), persist write.  The first call is a validation; a record fetch
\* is the second call, before the history load; the history load directly
\* follows a validation; the completion call directly follows the history
\* load; a pair is in the memory only after the completion call; the write
\* follows the completion call and a validation of its own, after the memory
\* update is over.
C20_OrderOfSteps ==
    \A i \in Slots :
        LET calls == req[i].calls
        IN  /\ calls /= <<>> => calls[1] = "validate"
            /\ \A a \in 1..Len(calls) :
                 /\ calls[a] = "records" => a = 2
                 /\ calls[a] = "history" => (a \in {3, 4} /\ calls[a - 1] = "validate")
                 /\ calls[a] = "completion" => (a > 1 /\ calls[a - 1] = "history")
                 /\ calls[a] = "persist"
                    => /\ a > 2 /\ calls[a - 1] = "validate" /\ calls[a - 2] = "completion"
                       /\ req[i].comp = "returned" => req[i].turn /= 0
            /\ req[i].turn /= 0 => Count(calls, "completion") = 1
            /\ req[i].pc \in {"slice", "assign"} => calls[Len(calls)] = "completion"

\* a whole turn: the record fetch second, the history load fourth, the pair
\* in the memory, the write last
C20_Witness ==
    \E i \in Slots : /\ Done(i) /\ req[i].calls = FullTurn
                     /\ req[i].turn /= 0
                     /\ req[i].posted /= <<>>
                     /\ heap[req[i].ref].current_conversation /= <<>>

\* C17: the context has up to three sections, in the order records,
\* persisted history, in-session memory; a section is there exactly when its
\* collection is not empty; the records section lists every chunk in order,
\* the history section the last min(3, n) entries from the oldest to the
\* newest, the memory section every turn of the memory.
C17_ContextSections ==
    probe.fn = "_build_context" =>
        LET chunks == probe.session.processed_chunks
            hist == probe.session.chat_history
            mem == probe.session.current_conversation
            res == probe.result
            m == IF Len(hist) < 3 THEN Len(hist) ELSE 3
            a == IF chunks = <<>> THEN 0 ELSE 1 + Len(chunks)
            b == a + (IF hist = <<>> THEN 0 ELSE 1 + 3 * m)
        IN  /\ Len(res) = b + (IF mem = <<>> THEN 0 ELSE 1 + 3 * Len(mem))
            /\ chunks /= <<>> =>
                 /\ res[1] = Part("=== ALL EXPENSE DATA ===", 0, NoChunk, <<>>)
                 /\ \A k \in 1..Len(chunks) :
                      res[1 + k] = Part("Data", k, [type |-> chunks[k].type,
                                                    text |-> chunks[k].text], <<>>)
            /\ hist /= <<>> =>
                 /\ res[a + 1] = Part("=== PREVIOUS CONVERSATIONS ===", 0, NoChunk, <<>>)
                 /\ \A k \in 1..m :
                      LET entry == hist[Len(hist) - m + k]
                          at == a + 1 + 3 * (k - 1)
                      IN  /\ res[at + 1] = Part("Previous", k, NoChunk, <<>>)
                          /\ res[at + 2] = Part("Human", 0, NoChunk, entry.human)
                          /\ res[at + 3] = Part("Assistant", 0, NoChunk, entry.assistant)
            /\ mem /= <<>> =>
                 /\ res[b + 1] = Part("=== CURRENT CONVERSATION ===", 0, NoChunk, <<>>)
                 /\ \A k \in 1..Len(mem) :
                      LET at == b + 1 + 3 * (k - 1)
                      IN  /\ res[at + 1] = Part("Exchange", k, NoChunk, <<>>)
                          /\ res[at + 2] = Part("Human", 0, NoChunk, mem[k][1])
                          /\ res[at + 3] = Part("Assistant", 0, NoChunk, mem[k][2])

\* three chunks, four entries of history of which the first is left out, and
\* two turns of memory
C17_Witness ==
    /\ probe.fn = "_build_context"
    /\ Len(probe.session.processed_chunks) = 3
    /\ probe.session.chat_history = Hist4
    /\ Len(probe.session.current_conversation) = 2
    /\ Len(probe.result) = 4 + 10 + 7
    /\ probe.result[7] = Part("Human", 0, NoChunk, Hist4[2].human)
    /\ \A k \in 1..Len(probe.result) : probe.result[k].text /= Hist4[1].human

\* the granularity and the period of the entries of one granularity
Entries(kind, data, periods) ==
    IF kind \in data.keys
    THEN [k \in 1..Len(periods) |-> <<kind, periods[k].id>>]
    ELSE <<>>

RECURSIVE CentsOf(_, _)
CentsOf(txs, kind) ==
    IF txs = <<>> THEN 0
    ELSE (IF Head(txs).transactionType /= kind THEN 0
          ELSE IF Head(txs).amount.lit = "int" THEN 100 * Head(txs).amount.n
          ELSE Head(txs).amount.n)
         + CentsOf(Tail(txs), kind)

WholeOnly(txs, kind) ==
    \A k \in 1..Len(txs) :
        txs[k].transactionType = kind => txs[k].amount.lit = "int"

\* the Python number that the decimal amount of c hundredths reads as
DecimalAmount(c, whole) ==
    IF whole THEN PyInt(c \div 100)
    ELSE PyFloat(IF c < 0 THEN Negated(FloatOfCents(-c)) ELSE FloatOfCents(c))

SourcePeriods(data) ==
    (IF "daily" \in data.keys THEN data.daily ELSE <<>>)
    \o (IF "weekly" \in data.keys THEN data.weekly ELSE <<>>)
    \o (IF "monthly" \in data.keys THEN data.monthly ELSE <<>>)

\* C19: total_income and total_expenses of every chunk are the exact decimal
\* sums of the amounts of the period, and net is income minus expenses
\* exactly, without rounding drift.
C19_TotalsExact ==
    probe.fn = "_process_data" /\ ~probe.result.raised =>
        \A k \in 1..Len(probe.result.chunks) :
            LET txs == SourcePeriods(probe.data)[k].transactions
                chunk == probe.result.chunks[k]
                income == CentsOf(txs, "income")
                expenses == CentsOf(txs, "expense")
            IN  /\ chunk.total_income = DecimalAmount(income, WholeOnly(txs, "income"))
                /\ chunk.total_expenses = DecimalAmount(expenses, WholeOnly(txs, "expense"))
                /\ chunk.net = DecimalAmount(income - expenses,
                                             WholeOnly(txs, "income") /\ WholeOnly(txs, "expense"))

\* C21: a turn whose completion call raises ends at the error terminal: it
\* does not go on to the persist step and issues no write to
\* history/create-history.
C21_RaisedCompletionNotPersisted ==
    \A i \in Slots :
        req[i].comp = "raised" =>
            /\ req[i].pc \notin {"persistv", "persist"}
            /\ req[i].posted = <<>>
            /\ \A k \in 1..Len(req[i].calls) : req[i].calls[k] /= "persist"

\* a handler that has issued an external call and waits for its answer
InExternalCall(i) ==
    req[i].pc \in {"fetchv", "fetchrec", "chatv", "history", "complete", "persistv", "persist"}

\* C22: while one request waits in an external call, a request of another
\* identifier that has arrived can take its next step towards the cache's
\* get-or-create.
C22_CacheOpenDuringCalls ==
    \A i \in Slots : \A j \in Slots \ {i} :
        (InExternalCall(i) /\ req[j].pc = "queued" /\ Key(i) /= Key(j))
            => ENABLED Handler(j)

\* C23: eviction goes by insertion order, not by recency of use.  A request
\* that finds its identifier in the cache leaves the cache as it is, the
\* place of its entry included; a constructed Session goes to the end of the
\* cache, also when its identifier was cached and evicted before; an
\* eviction removes the entries at the front and keeps the others in their
\* order, whichever of them were used last.
C23_InsertionOrderNotRecency ==
    [][\A i \in Slots :
          /\ (req[i].pc = "lookup" /\ req'[i].pc = "fetchv") => cache' = cache
          /\ (req[i].pc = "create" /\ req'[i].pc = "fetchv")
             => cache' = Append(cache, [uid |-> Key(i), obj |-> nextObj])
          /\ (req[i].pc = "queued" /\ req'[i].pc = "lookup")
             => \E k \in 0..Len(cache) :
                   /\ cache' = SubSeq(cache, k + 1, Len(cache))
                   /\ req'[i].removed = [x \in 1..k |-> cache[x].uid]
      ]_vars

\* the oldest entry of a full cache serves a request: it is the entry used
\* last and still the first in line for eviction
C23_Witness ==
    \E i \in Slots : /\ req[i].pc = "fetchv"
                     /\ req[i].had /= 0 /\ req[i].ref = req[i].had
                     /\ Len(cache) = MAX_CACHE_SIZE
                     /\ cache[1].uid = Key(i)
                     /\ cache[1].obj = req[i].ref

\* the turn of slot i has passed the validation of chat(): its context is or
\* has been built
ContextBuilt(i) ==
    \/ req[i].pc \in {"complete", "slice", "assign", "persistv", "persist"}
    \/ req[i].pc = "done" /\ req[i].comp /= "none"

\* the chunks the Summarizer makes of what a turn fetched
ChunksFetched(r) ==
    IF r.fetched.keys = {} THEN <<>> ELSE ProcessData(r.fetched).chunks

\* C24: in every turn that reaches context building the chunks of the
\* Session are the Summarizer's output for the records fetched in that turn,
\* none when the fetch returned none, and the records section of the context
\* lists these chunks and no chunk of an earlier turn.
C24_ChunksAreThisTurns ==
    \A i \in Slots :
        /\ ContextBuilt(i) => heap[req[i].ref].processed_chunks = ChunksFetched(req[i])
        /\ req[i].pc = "complete" =>
              SelectSeq(build_context(heap[req[i].ref]), LAMBDA part : part.part = "Data")
                = [k \in 1..Len(heap[req[i].ref].processed_chunks) |->
                     Part("Data", k, [type |-> ChunksFetched(req[i])[k].type,
                                      text |-> ChunksFetched(req[i])[k].text], <<>>)]

\* a session that held chunks serves a turn whose fetch returned none: the
\* context of the completion call has no records section
C24_Witness ==
    \E i \in Slots : /\ req[i].pc = "complete"
                     /\ req[i].stale
                     /\ req[i].had = req[i].ref
                     /\ req[i].fetched = NoReport
                     /\ heap[req[i].ref].processed_chunks = <<>>
                     /\ \A k \in 1..Len(build_context(heap[req[i].ref])) :
                          build_context(heap[req[i].ref])[k].part /= "Data"

\* request i works on a Session constructed for it
Constructed(i) == req[i].ref /= 0 /\ req[i].ref /= req[i].had

\* C25: eviction discards the Sessions of the evicted identifiers and is the
\* only way out of the cache.  An identifier leaves the cache only in the
\* capacity check of a request that found more than MAX_CACHE_SIZE entries,
\* and its Session object is gone with it; the next request of an evicted
\* identifier works on a newly constructed Session whose memory and history
\* are empty, and what its history load puts there is what the store answers
\* in that turn.
C25_EvictionDiscardsSessions ==
    [][/\ (Keys(cache) \ Keys(cache') /= {})
          => \E i \in Slots :
                /\ req[i].pc = "queued" /\ req'[i].pc = "lookup"
                /\ Len(cache) > MAX_CACHE_SIZE
                /\ Keys(cache) \ Keys(cache') = {cache[x].uid : x \in 1..RemoveCount(Len(cache))}
                /\ \A x \in 1..RemoveCount(Len(cache)) : cache[x].obj \notin DOMAIN heap'
       /\ \A i \in Slots :
          /\ (req[i].had /= 0 /\ ~InCache(Key(i)) /\ req[i].pc = "create" /\ req'[i].pc = "fetchv")
             => /\ Constructed(i)'
                /\ req[i].had \notin DOMAIN heap'
                /\ heap'[req'[i].ref].current_conversation = <<>>
                /\ heap'[req'[i].ref].chat_history = <<>>
                /\ heap'[req'[i].ref].processed_chunks = <<>>
          /\ (Constructed(i) /\ req[i].pc = "history" /\ req'[i].pc = "complete")
             => /\ heap'[req[i].ref].current_conversation = <<>>
                /\ \E r \in HistoryResponses(req[i].validated) :
                     /\ AnswerKind(r) = req'[i].loaded
                     /\ heap'[req[i].ref].chat_history =
                          (IF AnswerKind(r) = "list" THEN r.val ELSE <<>>)
      ]_vars

\* an identifier whose Session held a turn was evicted; its next request is
\* about to call the provider with an empty memory and the history the store
\* has just answered
C25_Witness ==
    \E i \in Slots : /\ req[i].pc = "complete"
                     /\ req[i].remembered
                     /\ Constructed(i)
                     /\ req[i].had \notin DOMAIN heap
                     /\ heap[req[i].ref].current_conversation = <<>>
                     /\ heap[req[i].ref].chat_history = Hist4

\* the four ways a turn ends, read from the answered request record r
ValidationError(r) == r.status \in {400, 422}
Invalid(r) == r.status = 404
ErrorTerminal(r) == r.status \in {500, 503} \/ (r.status = 200 /\ r.comp = "raised")
DoneOutcome(r) == r.status = 200 /\ r.comp = "returned"

OutcomesOf(r) ==
    {o \in {"validation error", "invalid", "error", "done"} :
        \/ o = "validation error" /\ ValidationError(r)
        \/ o = "invalid" /\ Invalid(r)
        \/ o = "error" /\ ErrorTerminal(r)
        \/ o = "done" /\ DoneOutcome(r)}

C27_OneOverAtMost ==
    /\ [](Len(cache) <= MAX_CACHE_SIZE + 1)
    /\ [][/\ (Len(cache) <= MAX_CACHE_SIZE)
             => /\ Keys(cache) \subseteq Keys(cache')
                /\ Len(cache') \in {Len(cache), Len(cache) + 1}
          /\ \A i \in Slots :
               (req[i].pc = "create" /\ req'[i].pc = "fetchv")
               => /\ Len(cache) <= MAX_CACHE_SIZE
                  /\ Len(cache') = Len(cache) + 1
          /\ \A i \in Slots :
               (req[i].pc = "queued" /\ req'[i].pc = "lookup"
                    /\ Len(cache) <= MAX_CACHE_SIZE)
               => cache' = cache /\ req'[i].removed = <<>>
         ]_vars

\* a request found the cache full, removed nothing and inserted its Session:
\* the cache holds MAX_CACHE_SIZE + 1 entries
C27_Witness ==
    \E i \in Slots : /\ req[i].pc = "fetchv"
                     /\ Constructed(i)
                     /\ req[i].removed = <<>>
                     /\ Len(cache) = MAX_CACHE_SIZE + 1
                     /\ cache[Len(cache)].uid = Key(i)

\* C28: the Session is stored in the cache before any identity validation
\* of the turn is sent, and every request that passed the checks of its
\* input ends with an entry for its trimmed identifier in the cache, the
\* Session it worked on; so does a request that ends Invalid (404).
C28_EntryBeforeValidation ==
    [][\A i \in Slots :
          /\ (req[i].pc = "create" /\ req'[i].pc = "fetchv")
             => /\ req[i].calls = <<>>
                /\ req'[i].calls = <<>>
                /\ req'[i].is_valid = "unset"
                /\ Key(i) \in Keys(cache')
          /\ (req[i].pc /= "done" /\ req'[i].pc = "done"
                  /\ req'[i].status \notin {400, 422, 503})
             => /\ Key(i) \in Keys(cache')
                /\ cache'[ObjOf(cache', Key(i))].obj = req'[i].ref
          /\ (req[i].pc /= "done" /\ req'[i].pc = "done" /\ req'[i].status = 404)
             => /\ Key(i) \in Keys(cache')
                /\ req'[i].validated = <<>>
      ]_vars

\* the request of an identifier the store does not know has ended Invalid;
\* its capacity check removed the Session of an account that had answered a
\* turn, and its own entry is in the cache
C28_Witness ==
    \E i \in Slots : /\ req[i].pc = "done"
                     /\ req[i].status = 404
                     /\ Key(i) \notin Accounts
                     /\ req[i].lost
                     /\ \E k \in 1..Len(req[i].removed) : req[i].removed[k] = IdB
                     /\ ~InCache(IdB)
                     /\ InCache(Key(i))

\* the texts of the CURRENT CONVERSATION section of a context
CurrentConversationTexts(context) ==
    LET from == {k \in 1..Len(context) : context[k].part = "=== CURRENT CONVERSATION ==="}
    IN  {context[k].text : k \in {x \in 1..Len(context) : \E f \in from : x > f}}

\* C29: the in-session memory of a Session changes only when a completion
\* call of a turn on it returns and when that turn truncates it; from the
\* step in which its completion call raises to its end a turn changes
\* nothing in it.  No memory holds the error text, and no context given to
\* a completion call has it in its CURRENT CONVERSATION section.
C29_RaisedCompletionLeavesMemory ==
    /\ [][/\ \A i \in Slots :
               req'[i].comp = "raised"
               => /\ req'[i].ref = req[i].ref
                  /\ heap'[req[i].ref].current_conversation
                       = heap[req[i].ref].current_conversation
                  /\ heap'[req[i].ref].turns = heap[req[i].ref].turns
                  /\ req'[i].keep = NoKeep
          /\ \A o \in (DOMAIN heap) \cap (DOMAIN heap') :
               heap'[o].current_conversation /= heap[o].current_conversation
               => \E i \in Slots :
                     /\ req[i].ref = o
                     /\ \/ req[i].pc = "complete" /\ req'[i].comp = "returned"
                        \/ req[i].pc = "assign" /\ req[i].comp = "returned"
         ]_vars
    /\ [](\A o \in DOMAIN heap :
             \A k \in 1..Len(heap[o].current_conversation) :
                 heap[o].current_conversation[k][2] /= ErrorText)
    /\ [](\A i \in Slots :
             req[i].pc = "complete"
             => ErrorText \notin CurrentConversationTexts(build_context(heap[req[i].ref])))

\* the completion call of a turn on a Session that held a pair has raised:
\* the turn has ended with the error text as its answer and the memory is
\* the pair it held
C29_Witness ==
    \E i \in Slots : /\ req[i].pc = "done"
                     /\ req[i].comp = "raised"
                     /\ req[i].response = ErrorText
                     /\ req[i].remembered
                     /\ req[i].had = req[i].ref
                     /\ Len(heap[req[i].ref].current_conversation) = 1
                     /\ heap[req[i].ref].current_conversation = heap[req[i].ref].turns
                     /\ heap[req[i].ref].current_conversation[1][2] = AnswerText

====
